---- MODULE Spec2Model ----
(***************************************************************************)
(* SteamSizeOnDiskFixer.py: the manifest (.acf) text patcher, the parser,  *)
(* the backup-before-write discipline and the batch loop of main().        *)
(*                                                                         *)
(* A text is a sequence of one-character strings.  A file's content is the *)
(* text that open(path, encoding='utf-8').read() returns and that          *)
(* f.write() is given; a library I/O call either takes effect as a whole   *)
(* or raises without effect.                                               *)
(*                                                                         *)
(* Spec      one user running the tool, and running it again               *)
(* SpecRace  two runs of the tool at once on one library                   *)
(* SpecPatch parse_acf and the patch step of update_acf on bounded texts   *)
(***************************************************************************)
EXTENDS Integers, Sequences, FiniteSets

----------------------------------------------------------------------------
(* Characters and character classes of the regular expressions.            *)

QUOTE == "\""

KEY == <<"S", "i", "z", "e", "O", "n", "D", "i", "s", "k">>

\* the literal '"SizeOnDisk"' of the membership test and of both patterns
QuotedKey == <<QUOTE>> \o KEY \o <<QUOTE>>

\* \s
IsSpace(c) == c \in {" ", "\t", "\n", "\r", "\f"}

\* \d
Digits == <<"0", "1", "2", "3", "4", "5", "6", "7", "8", "9">>

IsDigit(c) == \E d \in 1..Len(Digits) : Digits[d] = c

\* f'{new_size_bytes}': the decimal rendering of an integer
RECURSIVE ToStr(_)
ToStr(n) ==
    IF n < 0 THEN <<"-">> \o ToStr(0 - n)
    ELSE IF n < 10 THEN <<Digits[n + 1]>>
    ELSE ToStr(n \div 10) \o <<Digits[(n % 10) + 1]>>

\* s[i:].startswith(lit), 1-based
StartsWithAt(s, i, lit) ==
    /\ i + Len(lit) - 1 <= Len(s)
    /\ \A k \in 1..Len(lit) : s[i + k - 1] = lit[k]

\* lit in s
Contains(s, lit) == \E i \in 1..Len(s) : StartsWithAt(s, i, lit)

\* the first index >= i that holds no whitespace (Len(s)+1 when none): \s*
RECURSIVE SkipSpaces(_, _)
SkipSpaces(s, i) ==
    IF i <= Len(s) /\ IsSpace(s[i]) THEN SkipSpaces(s, i + 1) ELSE i

\* the first index >= i that holds no digit: \d*
RECURSIVE SkipDigits(_, _)
SkipDigits(s, i) ==
    IF i <= Len(s) /\ IsDigit(s[i]) THEN SkipDigits(s, i + 1) ELSE i

\* the first index >= i that holds a quote: [^"]*
RECURSIVE SkipNonQuotes(_, _)
SkipNonQuotes(s, i) ==
    IF i <= Len(s) /\ s[i] # QUOTE THEN SkipNonQuotes(s, i + 1) ELSE i

----------------------------------------------------------------------------
(* update_acf, replace branch: re.sub(r'("SizeOnDisk"\s*")-?\d+(")', repl, *)
(* content).                                                               *)

\* Index of the quote that ends group 1 of a match starting at i
SizeGroup1End(s, i) == SkipSpaces(s, i + Len(QuotedKey))

\* (a variant of the pattern without the '-?': a stored "-1" is not matched)
SizeDigitsStartNoSign(s, i) == SizeGroup1End(s, i) + 1

\* Index where the digits start: after the optional '-'
SizeDigitsStart(s, i) ==
    LET v == SizeGroup1End(s, i) + 1
    IN  IF v <= Len(s) /\ s[v] = "-" THEN v + 1 ELSE v

\* Index of the last character (group 2's quote) of the match of the size
\* pattern that starts at i; 0 when the pattern does not match at i
SizeMatchEnd(s, i) ==
    IF ~StartsWithAt(s, i, QuotedKey) THEN 0
    ELSE LET g == SizeGroup1End(s, i)
             d == SizeDigitsStart(s, i)
             e == SkipDigits(s, d)
         IN  IF /\ g <= Len(s) /\ s[g] = QUOTE
                /\ e > d
                /\ e <= Len(s) /\ s[e] = QUOTE
             THEN e ELSE 0

\* repl(match): group 1, the new size, group 2
Repl(s, i, n) ==
    SubSeq(s, i, SizeGroup1End(s, i)) \o ToStr(n) \o <<s[SizeMatchEnd(s, i)]>>

\* re.sub over the text from index i: leftmost non-overlapping matches
RECURSIVE SubSize(_, _, _)
SubSize(s, i, n) ==
    IF i > Len(s) THEN <<>>
    ELSE IF SizeMatchEnd(s, i) # 0
         THEN Repl(s, i, n) \o SubSize(s, SizeMatchEnd(s, i) + 1, n)
         ELSE <<s[i]>> \o SubSize(s, i + 1, n)

----------------------------------------------------------------------------
(* update_acf, insert branch: re.sub(r'}\s*$', f'\t"SizeOnDisk"\t"{n}"\n}',*)
(* content).                                                               *)

\* Index of the last character of the match of }\s*$ that starts at i; 0
\* when it does not match at i.  \s* is greedy and $ needs the end of the
\* text (or its final newline, which \s* has consumed by then)
BraceMatchEnd(s, i) ==
    IF s[i] = "}" /\ SkipSpaces(s, i + 1) > Len(s) THEN Len(s) ELSE 0

\* (a variant of the template that leaves the key unquoted)
InsertedTextUnquoted(n) ==
    <<"\t">> \o KEY \o <<"\t", QUOTE>> \o ToStr(n) \o <<QUOTE, "\n", "}">>

\* the replacement template
InsertedText(n) ==
    <<"\t">> \o QuotedKey \o <<"\t", QUOTE>> \o ToStr(n) \o <<QUOTE, "\n", "}">>

RECURSIVE SubBrace(_, _, _)
SubBrace(s, i, n) ==
    IF i > Len(s) THEN <<>>
    ELSE IF BraceMatchEnd(s, i) # 0
         THEN InsertedText(n) \o SubBrace(s, BraceMatchEnd(s, i) + 1, n)
         ELSE <<s[i]>> \o SubBrace(s, i + 1, n)

\* the branch update_acf takes
HasSizeKey(s) == Contains(s, QuotedKey)

\* the patch step of update_acf: content read -> content written
Patch(s, n) == IF HasSizeKey(s) THEN SubSize(s, 1, n) ELSE SubBrace(s, 1, n)

----------------------------------------------------------------------------
(* parse_acf: re.finditer(r'"([^"]+)"\s+"([^"]+)"', text) into a dict.     *)

\* Index of the closing quote of a quoted, non-empty, quote-free run whose
\* opening quote is at i; 0 when there is none
QuotedEnd(s, i) ==
    IF i <= Len(s) /\ s[i] = QUOTE
    THEN LET e == SkipNonQuotes(s, i + 1)
         IN  IF e > i + 1 /\ e <= Len(s) THEN e ELSE 0
    ELSE 0

\* Index of the opening quote of the value of a pair that starts at i; 0
\* when the key or the whitespace (\s+) is missing
PairValueStart(s, i) ==
    LET k == QuotedEnd(s, i)
    IN  IF k = 0 THEN 0
        ELSE LET w == SkipSpaces(s, k + 1)
             IN  IF w > k + 1 THEN w ELSE 0

\* Index of the last character of the pair that starts at i; 0 when none
PairMatchEnd(s, i) ==
    IF PairValueStart(s, i) = 0 THEN 0 ELSE QuotedEnd(s, PairValueStart(s, i))

PairKey(s, i) == SubSeq(s, i + 1, QuotedEnd(s, i) - 1)

PairValue(s, i) == SubSeq(s, PairValueStart(s, i) + 1, PairMatchEnd(s, i) - 1)

\* finditer: the <<key, value>> of the leftmost non-overlapping matches
RECURSIVE FindPairs(_, _)
FindPairs(s, i) ==
    IF i > Len(s) THEN <<>>
    ELSE IF PairMatchEnd(s, i) # 0
         THEN <<<<PairKey(s, i), PairValue(s, i)>>>> \o FindPairs(s, PairMatchEnd(s, i) + 1)
         ELSE FindPairs(s, i + 1)

\* the dict comprehension: a later match of a key overwrites an earlier one
parse_acf(s) ==
    LET ps == FindPairs(s, 1)
        last(k) == CHOOSE j \in 1..Len(ps) :
                       /\ ps[j][1] = k
                       /\ \A h \in (j + 1)..Len(ps) : ps[h][1] # k
    IN  [k \in {ps[j][1] : j \in 1..Len(ps)} |-> ps[last(k)][2]]

----------------------------------------------------------------------------
(* The pure patcher and parser applied to bounded inputs.                  *)

MaxFrags == 3

\* the byte counts get_folder_size hands to update_acf (sums of file sizes)
Sizes == {0, 1, 12}

\* pieces manifest texts are assembled from
Fragments ==
    { <<QUOTE>>, <<"\t">>, <<"\n">>, <<"}">>,
      KEY \o <<QUOTE>>, QuotedKey,
      QuotedKey \o <<"\t", QUOTE, "-", "1", QUOTE>>,
      <<QUOTE, "a", QUOTE, "\t", QUOTE, "b", QUOTE>>,
      <<QUOTE, "1", QUOTE>> }

RECURSIVE TextsOf(_)
TextsOf(k) ==
    IF k = 0 THEN {<<>>}
    ELSE LET shorter == TextsOf(k - 1)
         IN  shorter \cup {t \o f : t \in shorter, f \in Fragments}

Texts == TextsOf(MaxFrags)

VARIABLES
    text,            \* the manifest text handed to the patcher
    new_size_bytes,  \* update_acf's second argument
    fields,          \* parse_acf of the text, as main() sees it in the first run
    first,           \* the text the first run's update_acf writes
    fields2,         \* parse_acf of that text, as main() sees it in the second run
    second,          \* the text the second run's update_acf writes
    ppc              \* how many runs the text has been through

patchVars == <<text, new_size_bytes, fields, first, fields2, second, ppc>>

NotYet == <<"?">>

PatchInit ==
    /\ text \in Texts
    /\ new_size_bytes \in Sizes
    /\ fields = NotYet
    /\ first = NotYet
    /\ fields2 = NotYet
    /\ second = NotYet
    /\ ppc = "input"


----------------------------------------------------------------------------
(* The tool on a file system: main()'s batch loop, update_acf and          *)
(* backup_acf step by step, run by one process or by two at once.          *)

MaxRuns == 2

Procs == {1, 2}

NoFile == <<"no such file">>

\* STEAM_LIBRARIES, by drive letter
STEAM_LIBRARIES == <<"C", "F", "E", "D">>

\* os.path.isdir(library): the libraries that exist on the machine the
\* batch runs on, and on the machine where two runs meet on one manifest
PresentLibraries == {"C", "F", "E"}

SharedLibraries == {"F"}

\* os.listdir(library), filtered to appmanifest_*.acf
ListDir(library) ==
    IF library = "C" THEN <<"a", "b">>
    ELSE IF library = "F" THEN <<"c">>
    ELSE <<>>

Manifests == {"a", "b", "c"}

InstallDirKey == <<"i", "n", "s", "t", "a", "l", "l", "d", "i", "r">>

InstallDirLine ==
    <<"\t", QUOTE>> \o InstallDirKey \o <<QUOTE, "\t", QUOTE, "G", QUOTE, "\n">>

AppIdLine == <<"\t", QUOTE, "a", "p", "p", "i", "d", QUOTE, "\t", QUOTE, "4", QUOTE, "\n">>

SizeLine == <<"\t">> \o QuotedKey \o <<"\t", QUOTE, "-", "1", QUOTE, "\n">>

\* the manifest texts a library can hold when the tool first runs
InitialTexts(m) ==
    IF m = "a" THEN {<<"{", "\n">> \o InstallDirLine \o SizeLine \o <<"}", "\n">>}
    ELSE IF m = "b" THEN {<<"{", "\n">> \o AppIdLine \o <<"}", "\n">>}
    ELSE {<<"{", "\n">> \o InstallDirLine \o <<"}", "\n">>, InstallDirLine}

VARIABLES
    present,     \* the libraries for which os.path.isdir(library) holds
    acf,         \* acf[m]: the content of manifest m
    bak,         \* bak[m]: the content of m's .bak sibling, or NoFile
    pc,          \* pc[p]: where process p is in main()
    li,          \* li[p]: index into STEAM_LIBRARIES of the outer loop
    fi,          \* fi[p]: index into the listing of the inner loop
    size_bytes,  \* size_bytes[p]: get_folder_size's result
    content,     \* content[p]: update_acf's local variable
    sawBackup,   \* sawBackup[p]: what os.path.exists(backup_path) returned
    runs,        \* tool invocations started so far
    orig,        \* history: the content of each manifest before any run
    firstSeen,   \* history: acf[m] when backup_acf(m) was first called
    copies,      \* history: completed shutil.copy2 calls per manifest
    unseen,      \* history: existence checks per manifest that found no .bak
    lastOutcome, \* history: what backup_acf last reported per manifest
    written,     \* history: manifests the tool has opened for writing
    visited,     \* history: visited[p], manifests whose loop body p entered in this run
    completed,   \* history: completed[p], <<m, n>> of update_acf calls that returned in this run
    entry,       \* history: entry[p], acf[m] when p entered update_acf
    readText,    \* history: readText[p], what p's f.read() returned
    failure      \* history: failure[p], the call that raised in this run

fsVars == <<present, acf, bak>>

procVars == <<pc, li, fi, size_bytes, content, sawBackup, runs>>

histVars == <<orig, firstSeen, copies, unseen, lastOutcome, written, visited,
              completed, entry, readText, failure>>

sysVars == <<fsVars, procVars, histVars>>

vars == <<sysVars, patchVars>>

\* the contents the manifests can have when the tool first runs
InitialFileSystems ==
    {f \in [Manifests -> UNION {InitialTexts(m) : m \in Manifests}] :
        \A m \in Manifests : f[m] \in InitialTexts(m)}

\* a machine with the libraries libs, before the tool has ever run
SysInit(libs, contents) ==
    /\ present = libs
    /\ acf \in contents
    /\ orig = acf
    /\ bak = [m \in Manifests |-> NoFile]
    /\ pc = [p \in Procs |-> "idle"]
    /\ li = [p \in Procs |-> 0]
    /\ fi = [p \in Procs |-> 0]
    /\ size_bytes = [p \in Procs |-> 0]
    /\ content = [p \in Procs |-> <<>>]
    /\ sawBackup = [p \in Procs |-> FALSE]
    /\ runs = 0
    /\ firstSeen = [m \in Manifests |-> NoFile]
    /\ copies = [m \in Manifests |-> 0]
    /\ unseen = [m \in Manifests |-> 0]
    /\ lastOutcome = [m \in Manifests |-> "none"]
    /\ written = [m \in Manifests |-> FALSE]
    /\ visited = [p \in Procs |-> {}]
    /\ completed = [p \in Procs |-> {}]
    /\ entry = [p \in Procs |-> <<>>]
    /\ readText = [p \in Procs |-> <<>>]
    /\ failure = [p \in Procs |-> "none"]

\* the patch pipeline's variables while the tool runs
PatchIdle ==
    /\ text = <<>>
    /\ new_size_bytes = 0
    /\ fields = NotYet
    /\ first = NotYet
    /\ fields2 = NotYet
    /\ second = NotYet
    /\ ppc = "unused"

CurLibrary(p) == STEAM_LIBRARIES[li[p]]

CurFile(p) == ListDir(CurLibrary(p))[fi[p]]

InLoopBody(p) ==
    /\ pc[p] = "file"
    /\ fi[p] <= Len(ListDir(CurLibrary(p)))

\* an uncaught exception leaves main(): nothing in the file catches it
Raise(p, what) ==
    /\ pc' = [pc EXCEPT ![p] = "crashed"]
    /\ failure' = [failure EXCEPT ![p] = what]

\* the inner loop's continue / fall through to the next file
NextFile(p) ==
    /\ pc' = [pc EXCEPT ![p] = "file"]
    /\ fi' = [fi EXCEPT ![p] = fi[p] + 1]

\* python SteamSizeOnDiskFixer.py
StartRun(p) ==
    /\ pc[p] \in {"idle", "done", "crashed"}
    /\ runs < MaxRuns
    /\ runs' = runs + 1
    /\ pc' = [pc EXCEPT ![p] = "library"]
    /\ li' = [li EXCEPT ![p] = 1]
    /\ fi' = [fi EXCEPT ![p] = 0]
    /\ visited' = [visited EXCEPT ![p] = {}]
    /\ completed' = [completed EXCEPT ![p] = {}]
    /\ failure' = [failure EXCEPT ![p] = "none"]
    /\ UNCHANGED <<fsVars, size_bytes, content, sawBackup, orig, firstSeen,
                   copies, unseen, lastOutcome, written, entry, readText>>
    /\ UNCHANGED patchVars

\* if not os.path.isdir(library): continue
SkipMissingLibrary(p) ==
    /\ pc[p] = "library"
    /\ li[p] <= Len(STEAM_LIBRARIES)
    /\ CurLibrary(p) \notin present
    /\ li' = [li EXCEPT ![p] = li[p] + 1]
    /\ UNCHANGED <<fsVars, pc, fi, size_bytes, content, sawBackup, runs, histVars>>
    /\ UNCHANGED patchVars

\* for file in os.listdir(library)
EnterLibrary(p) ==
    /\ pc[p] = "library"
    /\ li[p] <= Len(STEAM_LIBRARIES)
    /\ CurLibrary(p) \in present
    /\ pc' = [pc EXCEPT ![p] = "file"]
    /\ fi' = [fi EXCEPT ![p] = 1]
    /\ UNCHANGED <<fsVars, li, size_bytes, content, sawBackup, runs, histVars>>
    /\ UNCHANGED patchVars

\* the listing is exhausted: on to the next library
LeaveLibrary(p) ==
    /\ pc[p] = "file"
    /\ fi[p] > Len(ListDir(CurLibrary(p)))
    /\ pc' = [pc EXCEPT ![p] = "library"]
    /\ li' = [li EXCEPT ![p] = li[p] + 1]
    /\ UNCHANGED <<fsVars, fi, size_bytes, content, sawBackup, runs, histVars>>
    /\ UNCHANGED patchVars

\* STEAM_LIBRARIES is exhausted: main() returns
FinishRun(p) ==
    /\ pc[p] = "library"
    /\ li[p] > Len(STEAM_LIBRARIES)
    /\ pc' = [pc EXCEPT ![p] = "done"]
    /\ UNCHANGED <<fsVars, li, fi, size_bytes, content, sawBackup, runs, histVars>>
    /\ UNCHANGED patchVars

\* parse_acf(acf_path): open() or read() raises
ParseFail(p) ==
    /\ InLoopBody(p)
    /\ Raise(p, "parse")
    /\ visited' = [visited EXCEPT ![p] = @ \cup {CurFile(p)}]
    /\ UNCHANGED <<fsVars, li, fi, size_bytes, content, sawBackup, runs, orig,
                   firstSeen, copies, unseen, lastOutcome, written, completed,
                   entry, readText>>
    /\ UNCHANGED patchVars

\* if not install_dir: continue
NoInstallDir(p) ==
    /\ InLoopBody(p)
    /\ InstallDirKey \notin DOMAIN parse_acf(acf[CurFile(p)])
    /\ NextFile(p)
    /\ visited' = [visited EXCEPT ![p] = @ \cup {CurFile(p)}]
    /\ UNCHANGED <<fsVars, li, size_bytes, content, sawBackup, runs, orig,
                   firstSeen, copies, unseen, lastOutcome, written, completed,
                   entry, readText, failure>>
    /\ UNCHANGED patchVars

\* os.path.isdir(game_path) is false
GameFolderMissing(p) ==
    /\ InLoopBody(p)
    /\ InstallDirKey \in DOMAIN parse_acf(acf[CurFile(p)])
    /\ NextFile(p)
    /\ visited' = [visited EXCEPT ![p] = @ \cup {CurFile(p)}]
    /\ UNCHANGED <<fsVars, li, size_bytes, content, sawBackup, runs, orig,
                   firstSeen, copies, unseen, lastOutcome, written, completed,
                   entry, readText, failure>>
    /\ UNCHANGED patchVars

\* size_bytes = get_folder_size(game_path); update_acf(acf_path, size_bytes) is entered
Measure(p) ==
    /\ InLoopBody(p)
    /\ InstallDirKey \in DOMAIN parse_acf(acf[CurFile(p)])
    /\ \E n \in Sizes : size_bytes' = [size_bytes EXCEPT ![p] = n]
    /\ pc' = [pc EXCEPT ![p] = "backup"]
    /\ visited' = [visited EXCEPT ![p] = @ \cup {CurFile(p)}]
    /\ entry' = [entry EXCEPT ![p] = acf[CurFile(p)]]
    /\ UNCHANGED <<fsVars, li, fi, content, sawBackup, runs, orig, firstSeen,
                   copies, unseen, lastOutcome, written, completed, readText,
                   failure>>
    /\ UNCHANGED patchVars

\* (a variant of backup_acf that copies without looking)
BackupNeededAlways(exists) == TRUE

\* backup_acf: if not os.path.exists(backup_path)
BackupNeeded(exists) == ~exists

\* backup_acf: the existence check
BackupCheck(p) ==
    /\ pc[p] = "backup"
    /\ LET m == CurFile(p)
           exists == bak[m] # NoFile
       IN  /\ sawBackup' = [sawBackup EXCEPT ![p] = exists]
           /\ firstSeen' = [firstSeen EXCEPT ![m] = IF @ = NoFile THEN acf[m] ELSE @]
           /\ unseen' = [unseen EXCEPT ![m] = IF exists THEN @ ELSE @ + 1]
           /\ IF BackupNeeded(exists)
              THEN /\ pc' = [pc EXCEPT ![p] = "copy"]
                   /\ UNCHANGED lastOutcome
              ELSE /\ pc' = [pc EXCEPT ![p] = "read"]
                   /\ lastOutcome' = [lastOutcome EXCEPT ![m] = "AlreadyExists"]
    /\ UNCHANGED <<fsVars, li, fi, size_bytes, content, runs, orig, copies,
                   written, visited, completed, entry, readText, failure>>
    /\ UNCHANGED patchVars

\* backup_acf: shutil.copy2(acf_path, backup_path)
BackupCopy(p) ==
    /\ pc[p] = "copy"
    /\ bak' = [bak EXCEPT ![CurFile(p)] = acf[CurFile(p)]]
    /\ copies' = [copies EXCEPT ![CurFile(p)] = @ + 1]
    /\ lastOutcome' = [lastOutcome EXCEPT ![CurFile(p)] = "Created"]
    /\ pc' = [pc EXCEPT ![p] = "read"]
    /\ UNCHANGED <<present, acf, li, fi, size_bytes, content, sawBackup, runs, orig,
                   firstSeen, unseen, written, visited, completed, entry,
                   readText, failure>>
    /\ UNCHANGED patchVars

\* (a variant of update_acf that carries on after a failed backup)
CopyFailureSwallowed == "read"

\* where update_acf goes when backup_acf raises: out of main()
AfterCopyFailure == "crashed"

\* backup_acf: shutil.copy2 raises
BackupCopyFail(p) ==
    /\ pc[p] = "copy"
    /\ pc' = [pc EXCEPT ![p] = AfterCopyFailure]
    /\ failure' = [failure EXCEPT ![p] = "copy"]
    /\ UNCHANGED <<fsVars, li, fi, size_bytes, content, sawBackup, runs, orig,
                   firstSeen, copies, unseen, lastOutcome, written, visited,
                   completed, entry, readText>>
    /\ UNCHANGED patchVars

\* update_acf: content = f.read()
ReadContent(p) ==
    /\ pc[p] = "read"
    /\ content' = [content EXCEPT ![p] = acf[CurFile(p)]]
    /\ readText' = [readText EXCEPT ![p] = acf[CurFile(p)]]
    /\ pc' = [pc EXCEPT ![p] = "patch"]
    /\ UNCHANGED <<fsVars, li, fi, size_bytes, sawBackup, runs, orig, firstSeen,
                   copies, unseen, lastOutcome, written, visited, completed,
                   entry, failure>>
    /\ UNCHANGED patchVars

\* update_acf: open() or read() raises
ReadFail(p) ==
    /\ pc[p] = "read"
    /\ Raise(p, "read")
    /\ UNCHANGED <<fsVars, li, fi, size_bytes, content, sawBackup, runs, orig,
                   firstSeen, copies, unseen, lastOutcome, written, visited,
                   completed, entry, readText>>
    /\ UNCHANGED patchVars

\* update_acf: the replace-or-insert step; neither branch raises
PatchContent(p) ==
    /\ pc[p] = "patch"
    /\ content' = [content EXCEPT ![p] = Patch(content[p], size_bytes[p])]
    /\ pc' = [pc EXCEPT ![p] = "open"]
    /\ UNCHANGED <<fsVars, li, fi, size_bytes, sawBackup, runs, histVars>>
    /\ UNCHANGED patchVars

\* update_acf: open(acf_path, "w") truncates the manifest
OpenWrite(p) ==
    /\ pc[p] = "open"
    /\ acf' = [acf EXCEPT ![CurFile(p)] = <<>>]
    /\ written' = [written EXCEPT ![CurFile(p)] = TRUE]
    /\ pc' = [pc EXCEPT ![p] = "write"]
    /\ UNCHANGED <<present, bak, li, fi, size_bytes, content, sawBackup, runs, orig,
                   firstSeen, copies, unseen, lastOutcome, visited, completed,
                   entry, readText, failure>>
    /\ UNCHANGED patchVars

\* update_acf: open(acf_path, "w") raises
OpenWriteFail(p) ==
    /\ pc[p] = "open"
    /\ Raise(p, "open")
    /\ UNCHANGED <<fsVars, li, fi, size_bytes, content, sawBackup, runs, orig,
                   firstSeen, copies, unseen, lastOutcome, written, visited,
                   completed, entry, readText>>
    /\ UNCHANGED patchVars

\* update_acf: f.write(content) and the close; update_acf returns
WriteContent(p) ==
    /\ pc[p] = "write"
    /\ acf' = [acf EXCEPT ![CurFile(p)] = content[p]]
    /\ completed' = [completed EXCEPT ![p] = @ \cup {<<CurFile(p), size_bytes[p]>>}]
    /\ NextFile(p)
    /\ UNCHANGED <<present, bak, li, size_bytes, content, sawBackup, runs, orig,
                   firstSeen, copies, unseen, lastOutcome, written, visited,
                   entry, readText, failure>>
    /\ UNCHANGED patchVars

\* update_acf: f.write(content) or the close raises; the manifest stays truncated
WriteFail(p) ==
    /\ pc[p] = "write"
    /\ Raise(p, "write")
    /\ UNCHANGED <<fsVars, li, fi, size_bytes, content, sawBackup, runs, orig,
                   firstSeen, copies, unseen, lastOutcome, written, visited,
                   completed, entry, readText>>
    /\ UNCHANGED patchVars

----------------------------------------------------------------------------
(* main()'s loop body on one text, without the file system: parse_acf,    *)
(* then update_acf's patch step.                                           *)

\* the first run of the tool over the text
FirstRun ==
    /\ ppc = "input"
    /\ fields' = parse_acf(text)
    /\ first' = Patch(text, new_size_bytes)
    /\ ppc' = "patched"
    /\ UNCHANGED <<text, new_size_bytes, fields2, second>>
    /\ UNCHANGED sysVars

\* the second run of the tool, over the first run's output, same byte count
SecondRun ==
    /\ ppc = "patched"
    /\ fields2' = parse_acf(first)
    /\ second' = Patch(first, new_size_bytes)
    /\ ppc' = "repatched"
    /\ UNCHANGED <<text, new_size_bytes, fields, first>>
    /\ UNCHANGED sysVars

PatchNext == FirstRun \/ SecondRun

----------------------------------------------------------------------------
(* Specifications.                                                         *)

Step(p) ==
    \/ StartRun(p)
    \/ SkipMissingLibrary(p)
    \/ EnterLibrary(p)
    \/ LeaveLibrary(p)
    \/ FinishRun(p)
    \/ ParseFail(p)
    \/ NoInstallDir(p)
    \/ GameFolderMissing(p)
    \/ Measure(p)
    \/ BackupCheck(p)
    \/ BackupCopy(p)
    \/ BackupCopyFail(p)
    \/ ReadContent(p)
    \/ ReadFail(p)
    \/ PatchContent(p)
    \/ OpenWrite(p)
    \/ OpenWriteFail(p)
    \/ WriteContent(p)
    \/ WriteFail(p)

\* one process: the tool run, and run again, by one user
Next == Step(1)

Init == SysInit(PresentLibraries, InitialFileSystems) /\ PatchIdle

Spec == Init /\ [][Next]_vars

\* two processes: two runs of the tool at once
RaceNext == \E p \in Procs : Step(p)

RaceInit == SysInit(SharedLibraries, InitialFileSystems) /\ PatchIdle

SpecRace == RaceInit /\ [][RaceNext]_vars

\* the patcher and the parser alone, on every text of Texts
WellFormedFileSystems ==
    {f \in InitialFileSystems : \A m \in Manifests : Contains(f[m], <<"}">>)}

PatchOnlyInit == SysInit(PresentLibraries, WellFormedFileSystems) /\ PatchInit

SpecPatch == PatchOnlyInit /\ [][PatchNext]_vars

----------------------------------------------------------------------------
(* Properties of the patcher and the parser (SpecPatch).                   *)

\* An occurrence of the size field, stated without the scanner: the quoted
\* key at i, whitespace up to the opening quote g of the value, an optional
\* '-' and one or more digits, and the closing quote at e
SizeFieldAt(s, i, g, e) ==
    /\ StartsWithAt(s, i, QuotedKey)
    /\ i + Len(QuotedKey) <= g /\ g < e /\ e <= Len(s)
    /\ \A x \in (i + Len(QuotedKey))..(g - 1) : IsSpace(s[x])
    /\ s[g] = QUOTE
    /\ s[e] = QUOTE
    /\ LET d == IF s[g + 1] = "-" THEN g + 2 ELSE g + 1
       IN  d < e /\ \A x \in d..(e - 1) : IsDigit(s[x])

IsSizeField(s, i) ==
    /\ StartsWithAt(s, i, QuotedKey)
    /\ \E g \in (i + Len(QuotedKey))..Len(s) : \E e \in (g + 2)..Len(s) :
           SizeFieldAt(s, i, g, e)

FieldValueQuote(s, i) ==
    CHOOSE g \in (i + Len(QuotedKey))..Len(s) :
        \E e \in (g + 2)..Len(s) : SizeFieldAt(s, i, g, e)

FieldEnd(s, i) ==
    CHOOSE e \in (FieldValueQuote(s, i) + 2)..Len(s) :
        SizeFieldAt(s, i, FieldValueQuote(s, i), e)

FieldValue(s, i) == SubSeq(s, FieldValueQuote(s, i) + 1, FieldEnd(s, i) - 1)

\* every occurrence, overlapping ones included
AllFields(s) == {i \in 1..Len(s) : IsSizeField(s, i)}

\* the occurrences a left-to-right scan meets once it steps over each one it takes
RECURSIVE LeftmostFields(_, _)
LeftmostFields(s, i) ==
    IF i > Len(s) THEN {}
    ELSE IF IsSizeField(s, i) THEN {i} \cup LeftmostFields(s, FieldEnd(s, i) + 1)
    ELSE LeftmostFields(s, i + 1)

\* the positions of the sign and digits of the occurrences in starts
ValuePositions(s, starts) ==
    UNION {(FieldValueQuote(s, i) + 1)..(FieldEnd(s, i) - 1) : i \in starts}

\* s without the characters at the positions in drop
Without(s, drop) ==
    LET keep[k \in 0..Len(s)] ==
            IF k = 0 THEN <<>>
            ELSE IF k \in drop THEN keep[k - 1] ELSE Append(keep[k - 1], s[k])
    IN  keep[Len(s)]

\* out is s with the value of each occurrence chosen by Occ replaced by
\* ToStr(n), nothing else touched
ReplacedIn(s, out, n, Occ(_)) ==
    LET before == Occ(s)
        after == Occ(out)
    IN  /\ Cardinality(after) = Cardinality(before)
        /\ Without(out, ValuePositions(out, after)) = Without(s, ValuePositions(s, before))
        /\ \A i \in after : FieldValue(out, i) = ToStr(n)

ScanFields(s) == LeftmostFields(s, 1)

\* C1: patching the output of a patch again with the same byte count gives
\* the same text, whichever branch the first patch took
C1_PatchIdempotent == ppc = "repatched" => second = first

C1_Witness ==
    /\ ppc = "repatched"
    /\ ~HasSizeKey(text)
    /\ first # text
    /\ HasSizeKey(first)
    /\ second = first
    /\ new_size_bytes >= 10

\* C5 as claimed: in the replace branch the value of EVERY occurrence of the
\* size field becomes the new byte count and nothing else changes
C5_EveryOccurrenceReplaced ==
    (ppc = "patched" /\ AllFields(text) # {})
        => ReplacedIn(text, first, new_size_bytes, AllFields)

\* C5 amended: in the replace branch the value of every occurrence that a
\* left-to-right scan takes (an occurrence that starts on the closing quote
\* of a taken one is stepped over) becomes the new byte count, and every
\* other character of the text stays as it was
C5_ScannedOccurrencesReplaced ==
    (ppc = "patched" /\ AllFields(text) # {})
        => ReplacedIn(text, first, new_size_bytes, ScanFields)

C5_Witness ==
    /\ ppc = "patched"
    /\ \E i \in ScanFields(text) : FieldValue(text, i) = <<"-", "1">>
    /\ Cardinality(ScanFields(text)) = 2
    /\ \A i \in ScanFields(first) : FieldValue(first, i) = <<"1", "2">>
    /\ first # text

\* the text ends in a closing brace followed by whitespace only
FinalBrace(s, b) ==
    /\ b \in 1..Len(s)
    /\ s[b] = "}"
    /\ \A x \in (b + 1)..Len(s) : IsSpace(s[x])

SizeLineOf(n) == <<"\t">> \o QuotedKey \o <<"\t", QUOTE>> \o ToStr(n) \o <<QUOTE, "\n">>

\* C6: in the insert branch the output is the input with the line
\* <tab>"SizeOnDisk"<tab>"N" put right before the last closing brace, every
\* other character kept, the whitespace after the brace included
C6_InsertKeepsEveryByte ==
    (ppc # "input" /\ ~HasSizeKey(text))
        => \A b \in 1..Len(text) :
               FinalBrace(text, b)
                   => first = SubSeq(text, 1, b - 1) \o SizeLineOf(new_size_bytes)
                                \o SubSeq(text, b, Len(text))

\* C9: for a text without the size key, every pair parse_acf finds in the
\* text it finds unchanged in the patched text, which also maps SizeOnDisk
\* to the byte count
C9_ParsePreserved ==
    (ppc = "repatched" /\ ~HasSizeKey(text))
        => /\ \A k \in DOMAIN fields : k \in DOMAIN fields2 /\ fields2[k] = fields[k]
           /\ KEY \in DOMAIN fields2
           /\ fields2[KEY] = ToStr(new_size_bytes)

----------------------------------------------------------------------------
(* Properties of the tool on the file system (Spec, SpecRace).             *)

\* C2: over any sequence of runs by one user the backup of a manifest is
\* copied at most once and, once there, holds what the manifest held when
\* backup_acf was first called on it
C2_BackupMadeOnce ==
    \A m \in Manifests :
        /\ copies[m] <= 1
        /\ bak[m] # NoFile => bak[m] = firstSeen[m]

C2_Witness ==
    \E m \in Manifests :
        /\ copies[m] = 1
        /\ lastOutcome[m] = "AlreadyExists"
        /\ written[m]
        /\ bak[m] = firstSeen[m]
        /\ acf[m] # bak[m]
        /\ acf[m] # <<>>

\* C3: a manifest the tool has opened for writing has a backup, and a run
\* whose backup copy raised has left the manifest as update_acf found it
C3_BackupGatesWrite ==
    /\ \A m \in Manifests : written[m] => bak[m] # NoFile
    /\ \A p \in Procs : failure[p] = "copy" => acf[CurFile(p)] = entry[p]

C3_Witness ==
    /\ \E m \in Manifests : written[m] /\ bak[m] # NoFile /\ acf[m] # orig[m]
    /\ \E p \in Procs : failure[p] = "copy" /\ ~written[CurFile(p)]

\* the places where the quoted key stands in s
KeyPositions(s) == {i \in 1..Len(s) : StartsWithAt(s, i, QuotedKey)}

\* C4: once update_acf has returned, the manifest holds the size field
\* exactly once, with the byte count it was called with
C4_ExactlyOneSizeField ==
    \A p \in Procs : \A c \in completed[p] :
        /\ Cardinality(KeyPositions(acf[c[1]])) = 1
        /\ \A i \in KeyPositions(acf[c[1]]) :
               /\ IsSizeField(acf[c[1]], i)
               /\ FieldValue(acf[c[1]], i) = ToStr(c[2])

\* C7: a text with neither the size key nor a closing brace is not carried
\* on to the write: update_acf stops with an error before it opens the
\* manifest for writing
C7_FormatErrorSurfaced ==
    \A p \in Procs :
        pc[p] \in {"open", "write"}
            => HasSizeKey(readText[p]) \/ Contains(readText[p], <<"}">>)

\* the manifests main() is to process: those listed in the present libraries
Listed ==
    {m \in Manifests :
        \E l \in present : \E k \in 1..Len(ListDir(l)) : ListDir(l)[k] = m}

\* C8: when a run is over, however it ended, its loop body has been entered
\* for every manifest of every present library
C8_FailureIsolated ==
    \A p \in Procs : pc[p] \in {"done", "crashed"} => visited[p] = Listed

\* C10: with two runs at once, a backup that differs from the original
\* manifest comes from the race and only from it: two existence checks found
\* no backup and two copies were made
C10_StaleBackupOnlyByRace ==
    \A m \in Manifests :
        (bak[m] # NoFile /\ bak[m] # orig[m]) => (unseen[m] >= 2 /\ copies[m] >= 2)

\* the interleaving: both runs saw no backup, one wrote the patched
\* manifest, the other copied afterwards
C10_Witness ==
    \E m \in Manifests :
        /\ ~sawBackup[1] /\ ~sawBackup[2]
        /\ unseen[m] = 2
        /\ written[m]
        /\ copies[m] = 2
        /\ bak[m] # orig[m]
        /\ \E n \in Sizes : bak[m] = Patch(orig[m], n)
        /\ HasSizeKey(bak[m])

====
